---- MODULE Spec2Model ----
(***************************************************************************)
(* Model of the Yoshikei client (custom_components/yoshikei/const.py) and  *)
(* of the calendar entity that consumes it (calendar.py).                  *)
(*                                                                         *)
(* Calendar dates are day numbers 1..MaxDay.  The remote portal is the     *)
(* environment: a fixed schedule, a login that accepts or rejects the      *)
(* credentials, and a server-side session that may expire at any time.     *)
(* One coroutine runs at a time (get_events is awaited by the entity), so  *)
(* the client is a sequential program whose steps are its await points.    *)
(***************************************************************************)
EXTENDS Integers, Sequences, FiniteSets, TLC

\* ---- bounds of the model
MaxDay == 3
MaxItems == 2
WinBack == 1
WinFwd == 1

Days == 1..MaxDay

\* ---- values
BaseUrl == "https://www2.yoshikei-dvlp.co.jp/webodr/apl/10/"
NoError == "None"
TimeTail == " 0:00:00"
NoEvents == [isNone |-> TRUE, list |-> <<>>]
Listed(evs) == [isNone |-> FALSE, list |-> evs]

VARIABLES
    sched,      \* portal: per day, whether a row exists and its item count
    dateTail,   \* portal: what follows the date in a deliverydate string
    credsOK,    \* portal: whether the stored username/password are accepted
    loggedIn,   \* portal: whether the session cookie is currently authenticated
    session,    \* aiohttp.ClientSession: "open" or "closed"
    atexitRan,  \* the atexit hook has been run (interpreter teardown)
    closeCoro,  \* coroutine objects created by calling close() and never awaited
    pc,         \* position of the get_events coroutine
    q,          \* arguments of the current get_events call
    start,      \* get_events: loop variable
    end,        \* get_events: argument
    data,       \* get_events: accumulated normalised rows
    events,     \* get_events: accumulated events
    err,        \* exception that left get_events, if any
    gd,         \* frame of the current get_data call
    lastCall,   \* last request/response exchange and what the client made of it
    fetchLog,   \* anchors of the get_data calls of the current get_events call
    reauthed,   \* the current get_events call had to authenticate
    prev,       \* the last returned call, while it has the range of the current one
    _event      \* YoshikeiCalender._event

vars == <<sched, dateTail, credsOK, loggedIn, session, atexitRan, closeCoro, pc, q, start,
          end, data, events, err, gd, lastCall, fetchLog, reauthed, prev, _event>>

\* ---- the portal

\* a day has no row, or a row with no item, one item or MaxItems items
ItemCounts == {0, 1, MaxItems}
SchedEntry == {[row |-> FALSE, n |-> 0]} \cup {[row |-> TRUE, n |-> k] : k \in ItemCounts}

\* the i-th order item of day d; links are unique per item, menu names are not
OrderItem(d, i) == [itemname |-> i, menuname |-> 0, link |-> d * 10 + i]

RawDate(d) == [ymd |-> d, sep |-> "/", tail |-> dateTail]

RawRow(d) ==
    [deliverydate |-> RawDate(d),
     orderitems |-> [i \in 1..sched[d].n |-> OrderItem(d, i)]]

RECURSIVE RowsFrom(_, _)
RowsFrom(lo, hi) ==
    IF lo > hi THEN <<>>
    ELSE IF sched[lo].row THEN <<RawRow(lo)>> \o RowsFrom(lo + 1, hi)
    ELSE RowsFrom(lo + 1, hi)

Max(a, b) == IF a > b THEN a ELSE b
Min(a, b) == IF a < b THEN a ELSE b

\* rows the portal returns for calStartDate = anchor
ServerWindow(anchor) == RowsFrom(Max(1, anchor - WinBack), Min(MaxDay, anchor + WinFwd))

Bodies == {"json", "html"}

\* response to the schedule query: an unauthenticated session is redirected
DataResponse(anchor, body) ==
    [history |-> IF loggedIn THEN <<>> ELSE <<302>>,
     json |-> body = "json",
     resultlist |-> IF body = "json" THEN ServerWindow(anchor) ELSE <<>>]

LoginResponse == [errorcode |-> IF credsOK THEN "" ELSE "E0001"]

\* ---- pure parts of the client

\* Yoshikei.authenticate, lines 52-57
authenticate(resp) ==
    IF resp.errorcode # "" THEN [kind |-> "InvalidAuth", value |-> FALSE]
    ELSE [kind |-> "ok", value |-> resp.errorcode = ""]

\* Yoshikei.__get_data, lines 73-78
get_data_body_first(resp) ==
    IF ~resp.json THEN [kind |-> "JSONDecodeError", rows |-> <<>>]
    ELSE IF Len(resp.history) # 0 THEN [kind |-> "InvalidAuth", rows |-> <<>>]
    ELSE [kind |-> "ok", rows |-> resp.resultlist]

__get_data(resp) ==
    IF Len(resp.history) # 0 THEN [kind |-> "InvalidAuth", rows |-> <<>>]
    ELSE IF ~resp.json THEN [kind |-> "JSONDecodeError", rows |-> <<>>]
    ELSE [kind |-> "ok", rows |-> resp.resultlist]

\* re.sub(r"(\d+)/(\d+)/(\d+) .*", "\\1-\\2-\\3", s, 1): needs the blank after the date
re_sub(s) ==
    IF s.sep = "/" /\ s.tail = TimeTail THEN [ymd |-> s.ymd, sep |-> "-", tail |-> ""]
    ELSE s

\* date.fromisoformat: 0 stands for ValueError
fromisoformat(s) == IF s.sep = "-" /\ s.tail = "" THEN s.ymd ELSE 0

\* get_data, lines 97-102
NormalizeOK(rows) == \A i \in 1..Len(rows) : fromisoformat(re_sub(rows[i].deliverydate)) # 0

Normalize(rows) ==
    [i \in 1..Len(rows) |->
        [deliverydate |-> fromisoformat(re_sub(rows[i].deliverydate)),
         orderitems |-> rows[i].orderitems]]

\* next((item for item in data if item["deliverydate"] == start), None): 0 stands for None
FirstRow(d, s) == IF Len(d) > 0 THEN 1 ELSE 0

FirstMatch(d, s) ==
    IF \E i \in 1..Len(d) : d[i].deliverydate = s
    THEN CHOOSE i \in 1..Len(d) :
            /\ d[i].deliverydate = s
            /\ \A j \in 1..(i - 1) : d[j].deliverydate # s
    ELSE 0

\* get_events, line 110
NeedsFetch_always(d, s) == TRUE

NeedsFetch(d, s) == FirstMatch(d, s) = 0

\* get_events, lines 117-125
CalendarEvent_menu_uid(day, item) ==
    [start |-> day.deliverydate, end |-> day.deliverydate, summary |-> item.itemname,
     description |-> <<BaseUrl, item.link>>, location |-> item.menuname,
     uid |-> item.menuname]

CalendarEventOf(day, item) ==
    [start |-> day.deliverydate, end |-> day.deliverydate, summary |-> item.itemname,
     description |-> <<BaseUrl, item.link>>, location |-> item.menuname,
     uid |-> item.link]

\* get_events, lines 115-126
EventsOf(day) == [i \in 1..Len(day.orderitems) |-> CalendarEventOf(day, day.orderitems[i])]

Accumulate_front(evs, new) == new \o evs

Accumulate(evs, new) == evs \o new

NewFrame(anchor, site) ==
    [anchor |-> anchor, site |-> site, nFetch |-> 0, nAuth |-> 0,
     first |-> "none", authOK |-> FALSE, status |-> "running", raw |-> <<>>]

NoFrame ==
    [anchor |-> 0, site |-> "none", nFetch |-> 0, nAuth |-> 0,
     first |-> "none", authOK |-> FALSE, status |-> "none", raw |-> <<>>]

NoCall == [op |-> "none", resp |-> [errorcode |-> ""], outcome |-> [kind |-> "none"]]

NoPrev == [set |-> FALSE, events |-> <<>>, reauthed |-> FALSE]

\* ---- initial state: after Yoshikei.__init__ and YoshikeiCalender.__init__

Init ==
    /\ sched \in [Days -> SchedEntry]
    /\ dateTail \in {TimeTail, ""}
    /\ credsOK \in BOOLEAN
    /\ loggedIn = FALSE
    /\ session = "open"
    /\ atexitRan = FALSE
    /\ closeCoro = 0
    /\ pc = "idle"
    /\ q = [start |-> 0, end |-> 0]
    /\ start = 0
    /\ end = 0
    /\ data = <<>>
    /\ events = <<>>
    /\ err = NoError
    /\ gd = NoFrame
    /\ lastCall = NoCall
    /\ fetchLog = <<>>
    /\ reauthed = FALSE
    /\ prev = NoPrev
    /\ _event = NoEvents

portal == <<sched, dateTail, credsOK>>
teardown == <<session, atexitRan, closeCoro>>

\* an exception leaves get_events and async_get_events: calendar.py line 64 does
\* not assign
Propagate_partial(e) ==
    /\ pc' = "raised"
    /\ err' = e
    /\ _event' = Listed(events)

Propagate(e) ==
    /\ pc' = "raised"
    /\ err' = e
    /\ _event' = _event


\* ---- Yoshikei.get_data

\* line 91: the first __get_data; InvalidAuth is caught, anything else propagates
get_data_try ==
    /\ pc = "fetch1"
    /\ ~atexitRan
    /\ \E body \in Bodies :
        LET resp == DataResponse(gd.anchor, body)
            out == __get_data(resp)
        IN  /\ lastCall' = [op |-> "__get_data", resp |-> resp, outcome |-> out]
            /\ gd' = [gd EXCEPT !.nFetch = @ + 1, !.first = out.kind, !.raw = out.rows,
                                !.status = IF out.kind \in {"ok", "InvalidAuth"}
                                           THEN @ ELSE "raised"]
            /\ IF out.kind = "ok"
               THEN pc' = "normalize" /\ UNCHANGED <<err, _event>>
               ELSE IF out.kind = "InvalidAuth"
               THEN pc' = "auth" /\ UNCHANGED <<err, _event>>
               ELSE Propagate(out.kind)
    /\ UNCHANGED <<portal, loggedIn, teardown, q, start, end, data, events,
                   fetchLog, reauthed, prev>>

\* line 94: authenticate (lines 43-57); a failed login propagates InvalidAuth
get_data_authenticate ==
    /\ pc = "auth"
    /\ ~atexitRan
    /\ LET resp == LoginResponse
           out == authenticate(resp)
       IN  /\ lastCall' = [op |-> "authenticate", resp |-> resp, outcome |-> out]
           /\ loggedIn' = credsOK
           /\ reauthed' = TRUE
           /\ gd' = [gd EXCEPT !.nAuth = @ + 1, !.authOK = out.kind = "ok",
                               !.status = IF out.kind = "ok" THEN @ ELSE "raised"]
           /\ IF out.kind = "ok"
              THEN pc' = "fetch2" /\ UNCHANGED <<err, _event>>
              ELSE Propagate(out.kind)
    /\ UNCHANGED <<portal, teardown, q, start, end, data, events, fetchLog, prev>>

\* line 95: the retry is outside the try block, so every exception propagates
get_data_retry_again ==
    /\ pc = "fetch2"
    /\ ~atexitRan
    /\ \E body \in Bodies :
        LET resp == DataResponse(gd.anchor, body)
            out == __get_data(resp)
        IN  /\ lastCall' = [op |-> "__get_data", resp |-> resp, outcome |-> out]
            /\ gd' = [gd EXCEPT !.nFetch = @ + 1, !.raw = out.rows,
                                !.status = IF out.kind = "ok" THEN @ ELSE "raised"]
            /\ IF out.kind = "ok"
               THEN pc' = "normalize" /\ UNCHANGED <<err, _event>>
               ELSE IF out.kind = "InvalidAuth" /\ gd.nAuth < 2
               THEN pc' = "auth" /\ UNCHANGED <<err, _event>>
               ELSE Propagate(out.kind)
    /\ UNCHANGED <<portal, loggedIn, teardown, q, start, end, data, events,
                   fetchLog, reauthed, prev>>

get_data_retry ==
    /\ pc = "fetch2"
    /\ ~atexitRan
    /\ \E body \in Bodies :
        LET resp == DataResponse(gd.anchor, body)
            out == __get_data(resp)
        IN  /\ lastCall' = [op |-> "__get_data", resp |-> resp, outcome |-> out]
            /\ gd' = [gd EXCEPT !.nFetch = @ + 1, !.raw = out.rows,
                                !.status = IF out.kind = "ok" THEN @ ELSE "raised"]
            /\ IF out.kind = "ok"
               THEN pc' = "normalize" /\ UNCHANGED <<err, _event>>
               ELSE Propagate(out.kind)
    /\ UNCHANGED <<portal, loggedIn, teardown, q, start, end, data, events,
                   fetchLog, reauthed, prev>>

\* lines 97-102, and the return to the calling line of get_events (106 or 111)
get_data_normalize ==
    /\ pc = "normalize"
    /\ ~atexitRan
    /\ IF ~NormalizeOK(gd.raw)
       THEN /\ Propagate("ValueError")
            /\ gd' = [gd EXCEPT !.status = "raised"]
            /\ UNCHANGED data
       ELSE /\ gd' = [gd EXCEPT !.status = "returned"]
            /\ data' = IF gd.site = "init" THEN Normalize(gd.raw)
                       ELSE data \o Normalize(gd.raw)
            /\ pc' = IF gd.site = "init" THEN "loop" ELSE "research"
            /\ UNCHANGED <<err, _event>>
    /\ UNCHANGED <<portal, loggedIn, teardown, q, start, end, events, lastCall,
                   fetchLog, reauthed, prev>>

\* ---- Yoshikei.get_events and YoshikeiCalender.async_get_events

\* calendar.py line 64 calls get_events, whose line 106 calls get_data(start)
async_get_events_keep(s, e) ==
    /\ pc \in {"idle", "returned", "raised"}
    /\ ~atexitRan
    /\ q' = [start |-> s, end |-> e]
    /\ start' = s
    /\ end' = e
    /\ data' = <<>>
    /\ events' = events
    /\ err' = NoError
    /\ gd' = NewFrame(s, "init")
    /\ fetchLog' = <<s>>
    /\ reauthed' = FALSE
    /\ prev' = IF q # [start |-> s, end |-> e] THEN NoPrev
               ELSE IF pc = "returned"
               THEN [set |-> TRUE, events |-> events, reauthed |-> reauthed]
               ELSE prev
    /\ lastCall' = NoCall
    /\ pc' = "fetch1"
    /\ UNCHANGED <<portal, loggedIn, teardown, _event>>

async_get_events(s, e) ==
    /\ pc \in {"idle", "returned", "raised"}
    /\ ~atexitRan
    /\ q' = [start |-> s, end |-> e]
    /\ start' = s
    /\ end' = e
    /\ data' = <<>>
    /\ events' = <<>>
    /\ err' = NoError
    /\ gd' = NewFrame(s, "init")
    /\ fetchLog' = <<s>>
    /\ reauthed' = FALSE
    /\ prev' = IF q # [start |-> s, end |-> e] THEN NoPrev
               ELSE IF pc = "returned"
               THEN [set |-> TRUE, events |-> events, reauthed |-> reauthed]
               ELSE prev
    /\ lastCall' = NoCall
    /\ pc' = "fetch1"
    /\ UNCHANGED <<portal, loggedIn, teardown, _event>>

\* lines 108-110 and 115-127: the day is in the data already
get_events_emit ==
    /\ pc = "loop"
    /\ ~atexitRan
    /\ start <= end
    /\ ~NeedsFetch(data, start)
    /\ FirstMatch(data, start) # 0
    /\ events' = Accumulate(events, EventsOf(data[FirstMatch(data, start)]))
    /\ start' = start + 1
    /\ UNCHANGED <<portal, loggedIn, teardown, pc, q, end, data, err, gd, lastCall,
                   fetchLog, reauthed, prev, _event>>

\* lines 108-111: the day is not in the data, get_data(start) is called
get_events_refetch ==
    /\ pc = "loop"
    /\ ~atexitRan
    /\ start <= end
    /\ NeedsFetch(data, start)
    /\ gd' = NewFrame(start, "supp")
    /\ fetchLog' = Append(fetchLog, start)
    /\ pc' = "fetch1"
    /\ UNCHANGED <<portal, loggedIn, teardown, q, start, end, data, events, err,
                   lastCall, reauthed, prev, _event>>

\* lines 112-127 after the supplementary rows were appended: day may be None, and
\* None["orderitems"] raises TypeError
get_events_research ==
    /\ pc = "research"
    /\ ~atexitRan
    /\ IF FirstMatch(data, start) = 0
       THEN /\ Propagate("TypeError")
            /\ UNCHANGED <<start, events>>
       ELSE /\ events' = Accumulate(events, EventsOf(data[FirstMatch(data, start)]))
            /\ start' = start + 1
            /\ pc' = "loop"
            /\ UNCHANGED <<err, _event>>
    /\ UNCHANGED <<portal, loggedIn, teardown, q, end, data, gd, lastCall, fetchLog,
                   reauthed, prev>>

\* line 108 false, line 128, and calendar.py lines 64-67
get_events_return ==
    /\ pc = "loop"
    /\ ~atexitRan
    /\ ~(start <= end)
    /\ pc' = "returned"
    /\ _event' = Listed(events)
    /\ UNCHANGED <<portal, loggedIn, teardown, q, start, end, data, events, err, gd,
                   lastCall, fetchLog, reauthed, prev>>

\* ---- environment

\* the portal drops the session
Expire ==
    /\ loggedIn
    /\ ~atexitRan
    /\ loggedIn' = FALSE
    /\ UNCHANGED <<portal, teardown, pc, q, start, end, data, events, err, gd,
                   lastCall, fetchLog, reauthed, prev, _event>>

\* interpreter exit: atexit calls the registered self.close; close is a coroutine
\* function, so the call only creates a coroutine object that nothing awaits and
\* line 132 (session.close) is never executed
AtExit ==
    /\ ~atexitRan
    /\ atexitRan' = TRUE
    /\ closeCoro' = closeCoro + 1
    /\ session' = session
    /\ UNCHANGED <<portal, loggedIn, pc, q, start, end, data, events, err, gd,
                   lastCall, fetchLog, reauthed, prev, _event>>

Next ==
    \/ \E s \in Days, e \in Days : s <= e /\ async_get_events(s, e)
    \/ get_data_try
    \/ get_data_authenticate
    \/ get_data_retry
    \/ get_data_normalize
    \/ get_events_emit
    \/ get_events_refetch
    \/ get_events_research
    \/ get_events_return
    \/ Expire
    \/ AtExit

Spec == Init /\ [][Next]_vars


\* ---- properties

Finished == gd.status \in {"returned", "raised"}

NoRowFor(d, s) == \A i \in 1..Len(d) : d[i].deliverydate # s

\* the client took a step of get_events or get_data
ClientStep == <<pc, start>>' # <<pc, start>>

C2_MissingDaySkipped ==
    [][(pc = "research" /\ pc' # pc /\ NoRowFor(data, start)) =>
          (pc' = "loop" /\ start' = start + 1 /\ events' = events /\ err' = NoError)]_vars

\* C3: every event of a returned list starts within the requested range
C3_EventsWithinRange ==
    pc = "returned" =>
        \A i \in 1..Len(events) : q.start <= events[i].start /\ events[i].start <= q.end

\* a returned, non-empty list built from data holding rows before and after the range
C3_Witness ==
    /\ pc = "returned"
    /\ events # <<>>
    /\ \E i \in 1..Len(data) : data[i].deliverydate < q.start
    /\ \E i \in 1..Len(data) : data[i].deliverydate > q.end

\* C4: a call that returns after an earlier returned call with the same range
\* returns the same list
C4_SameRangeSameEvents ==
    (pc = "returned" /\ prev.set) => events = prev.events

\* two returned calls with the same range, one of which had to authenticate
C4_Witness ==
    /\ pc = "returned"
    /\ prev.set
    /\ Len(events) >= 2
    /\ prev.reauthed # reauthed

SuppIssued == Len(fetchLog) >= 1 /\ fetchLog' = Append(fetchLog, start)

\* C5: a step of the client issues a supplementary get_data exactly when it is at
\* the head of the loop for a day of the range that has no row in the data
C5_FetchIffDayAbsent ==
    [][ClientStep =>
          (SuppIssued <=>
              (pc = "loop" /\ q.start <= start /\ start <= end /\ NoRowFor(data, start)))]_vars

\* a returned call over three days that needed one supplementary fetch
C5_Witness ==
    /\ pc = "returned"
    /\ q.end - q.start = 2
    /\ Len(fetchLog) = 2
    /\ events # <<>>

FirstIndex(d, s) == CHOOSE i \in 1..Len(d) :
    d[i].deliverydate = s /\ \A j \in 1..Len(d) : d[j].deliverydate = s => i <= j

DayEvents(d, s) ==
    IF NoRowFor(d, s) THEN <<>>
    ELSE [i \in 1..Len(d[FirstIndex(d, s)].orderitems) |->
            [start |-> s, end |-> s, uid |-> d[FirstIndex(d, s)].orderitems[i].link]]

RECURSIVE RangeEvents(_, _, _)
RangeEvents(d, lo, hi) ==
    IF lo > hi THEN <<>> ELSE DayEvents(d, lo) \o RangeEvents(d, lo + 1, hi)

\* C6: a returned list is, day by day in ascending order, one event per order item
\* of the day's row, in the row's item order, with start = end = the day and
\* uid = the item's link
C6_OneEventPerItemInOrder ==
    pc = "returned" =>
        LET want == RangeEvents(data, q.start, q.end)
        IN  /\ Len(events) = Len(want)
            /\ \A i \in 1..Len(events) :
                  /\ events[i].start = want[i].start
                  /\ events[i].end = want[i].end
                  /\ events[i].uid = want[i].uid

\* a returned call over several days, one with no item and one with several
C6_Witness ==
    /\ pc = "returned"
    /\ q.start < q.end
    /\ \E i \in 1..Len(data) :
          /\ data[i].deliverydate \in q.start..q.end
          /\ Len(data[i].orderitems) = 0
    /\ \E i \in 1..Len(data) :
          /\ data[i].deliverydate \in q.start..q.end
          /\ Len(data[i].orderitems) >= 2
    /\ Len(events) >= 3

C8_NoPartialEventState ==
    [][/\ pc' = "raised" => _event' = _event
       /\ _event' # _event =>
             (pc = "loop" /\ ~(start <= end) /\ pc' = "returned" /\ _event' = Listed(events))]_vars

\* a call failed in a supplementary fetch with events accumulated, after an
\* earlier call had stored its list
C8_Witness ==
    /\ pc = "raised"
    /\ gd.site = "supp"
    /\ events # <<>>
    /\ ~_event.isNone
    /\ _event.list # events

\* C9: once the atexit hook has run, the session is closed
C9_ClosedAfterAtExit == atexitRan => session = "closed"

\* C10: no two events of a returned list share a uid, and each day of the range
\* has as many events as its first row in the data has items
C10_UniqueUids ==
    pc = "returned" =>
        /\ \A i, j \in 1..Len(events) : i # j => events[i].uid # events[j].uid
        /\ \A d \in q.start..q.end :
              ~NoRowFor(data, d) =>
                  Cardinality({i \in 1..Len(events) : events[i].start = d})
                      = Len(data[FirstIndex(data, d)].orderitems)

\* a returned list of several events where the data holds two rows, with items, for
\* one day of the range
C10_Witness ==
    /\ pc = "returned"
    /\ Len(events) >= 2
    /\ \E i, j \in 1..Len(data) :
          /\ i < j
          /\ data[i].deliverydate = data[j].deliverydate
          /\ data[i].deliverydate \in q.start..q.end
          /\ Len(data[i].orderitems) > 0

====
